---- MODULE Spec2Model ----
(***************************************************************************)
(* Model of ngraph/analysis/dataflow.py: the DataFlowGraph constructor     *)
(* (__init__ and the recursive _fill_successors) and liveness().           *)
(*                                                                         *)
(* Operations are the integers 1..NumOps.  An operation's fields that the  *)
(* code reads are the variables args, other_deps, defs, persistent and     *)
(* base (base[o] = 0 stands for "o is not a TensorOp"; otherwise base[o]   *)
(* is op.tensor_description().base).  They are inputs: no action changes   *)
(* them.                                                                   *)
(***************************************************************************)
EXTENDS Naturals, Sequences, FiniteSets, TLC

VARIABLES
    args,          \* op -> sequence of ops               (w.args)
    other_deps,    \* op -> sequence of ops               (w.other_deps)
    defs,          \* op -> set of ops                    (op.defs)
    persistent,    \* op -> BOOLEAN                       (op.persistent)
    base,          \* op -> 0..NumBases                   (TensorOp / .base)
    results,       \* the constructor's argument, in its iteration order
    successors,    \* self.successors: key -> OrderedSet, as a sequence
    self_results,  \* self.results (assigned at the end of __init__)
    stack,         \* the active calls of _fill_successors, outermost first
    ri,            \* position of __init__'s loop in results
    pc,            \* "init" while __init__ runs, "done" afterwards
    order,         \* the order the last liveness() call got from instructions
    live,          \* the mapping the last liveness() call returned
    returned       \* TRUE once liveness() has returned

vars == <<args, other_deps, defs, persistent, base, results, successors,
          self_results, stack, ri, pc, order, live, returned>>

fields == <<args, other_deps, defs, persistent, base, results>>

----------------------------------------------------------------------------
(* Bounds of the model *)

NumOps == 3
NumBases == 3
MaxArgs == 2
MaxDeps == 1
MaxEdges == 3
MaxResults == 2
MaxPersistent == 1
MaxLiveEdges == 2

Ops == 1..NumOps
Bases == 1..NumBases

----------------------------------------------------------------------------
(* Helpers on sequences and graphs *)

Range(s) == {s[k] : k \in 1..Len(s)}

SeqsUpTo(S, n) == UNION {[1..k -> S] : k \in 0..n}

IsInjective(s) == \A a, b \in 1..Len(s) : s[a] = s[b] => a = b

EmptyMap == [o \in {} |-> {}]

\* the predecessors of w as the data model states them: its arguments and
\* its other dependencies
PredSet(w) == Range(args[w]) \cup Range(other_deps[w])

RECURSIVE ReachFrom(_, _)
ReachFrom(S, n) ==
    IF n = 0 THEN S
    ELSE ReachFrom(S \cup UNION {PredSet(o) : o \in S}, n - 1)

\* the operations transitively reachable from S through args / other_deps,
\* S included
Reachable(S) == ReachFrom(S, NumOps)

\* a cycle through args / other_deps among the operations reachable from
\* the results (a self-loop included)
HasCycle ==
    \E o \in Reachable(Range(results)) :
        o \in Reachable(PredSet(o))

Acyclic == ~HasCycle

EdgeCount(f) ==
    LET RECURSIVE Sum(_)
        Sum(n) == IF n = 0 THEN 0 ELSE Len(f[n]) + Sum(n - 1)
    IN Sum(NumOps)

----------------------------------------------------------------------------
(* base_tensor_descriptions *)

IsTensorOp(op) == base[op] # 0

base_tensor_descriptions(ops) == {base[op] : op \in {x \in ops : IsTensorOp(x)}}

----------------------------------------------------------------------------
(* OrderedSet.add (ngraph.op_graph.op_graph) and Digraph.topsort            *)
(* (ngraph.util.graph), by their contracts: add appends an element that is *)
(* not yet present; topsort returns some permutation of the keys in which  *)
(* every key precedes its successors.                                      *)

OrderedSetAdd(s, w) == IF w \in Range(s) THEN s ELSE Append(s, w)

Position(p, o) == CHOOSE k \in 1..Len(p) : p[k] = o

\* every permutation of the keys in which u precedes v for every edge u -> v
TopSorts(succ) ==
    LET K == DOMAIN succ
        n == Cardinality(K)
    IN {p \in [1..n -> K] :
            /\ IsInjective(p)
            /\ \A u \in K : \A v \in Range(succ[u]) :
                   v \in K /\ Position(p, u) < Position(p, v)}

----------------------------------------------------------------------------
(* DataFlowGraph.__init__ and _fill_successors *)

\* faulty variant: the other dependencies are not walked
PredsArgsOnly(w) == args[w]

\* "w.other_deps + list(w.args)"
Preds(w) == other_deps[w] \o args[w]

\* faulty variant: the key is (re)set without the membership test
RegisterAlways(succ, w) ==
    [x \in DOMAIN succ \cup {w} |-> IF x = w THEN <<>> ELSE succ[x]]

\* "if w not in self.successors: self.successors[w] = OrderedSet()"
Register(succ, w) ==
    IF w \notin DOMAIN succ THEN succ @@ (w :> <<>>) ELSE succ

\* faulty variant: no visited test, every predecessor is entered
NotVisitedAlways(succ, v) == TRUE

\* "if v not in self.successors"
NotVisited(succ, v) == v \notin DOMAIN succ

\* faulty variant: the edge is recorded in the wrong direction
AddSuccessorSwapped(succ, v, w) ==
    LET cur == IF w \in DOMAIN succ THEN succ[w] ELSE <<>>
    IN [x \in DOMAIN succ \cup {w} |->
            IF x = w THEN OrderedSetAdd(cur, v) ELSE succ[x]]

\* "self.successors[v].add(w)" on a defaultdict(OrderedSet)
AddSuccessor(succ, v, w) ==
    LET cur == IF v \in DOMAIN succ THEN succ[v] ELSE <<>>
    IN [x \in DOMAIN succ \cup {v} |->
            IF x = v THEN OrderedSetAdd(cur, w) ELSE succ[x]]

Frame(w, i, st) == [w |-> w, i |-> i, st |-> st]

Top == stack[Len(stack)]

Pop == SubSeq(stack, 1, Len(stack) - 1)

\* the interpreter's recursion limit, scaled to the model; the construction
\* stays below it, since every nested call registers a new key
RecursionLimit == NumOps + 2

\* __init__: "for w in results: self._fill_successors(w)", entering the call
CallResult ==
    /\ pc = "init"
    /\ stack = <<>>
    /\ ri <= Len(results)
    /\ successors' = Register(successors, results[ri])
    /\ stack' = <<Frame(results[ri], 1, "test")>>
    /\ ri' = ri + 1
    /\ UNCHANGED <<fields, self_results, pc, order, live, returned>>

\* _fill_successors: v is not a key, "self._fill_successors(v)"
Recurse ==
    /\ pc = "init"
    /\ stack # <<>>
    /\ Top.st = "test"
    /\ Top.i <= Len(Preds(Top.w))
    /\ Len(stack) < RecursionLimit
    /\ LET v == Preds(Top.w)[Top.i] IN
        /\ NotVisited(successors, v)
        /\ successors' = Register(successors, v)
        /\ stack' = Append(Pop, Frame(Top.w, Top.i, "add"))
                        \o <<Frame(v, 1, "test")>>
    /\ UNCHANGED <<fields, self_results, ri, pc, order, live, returned>>

\* _fill_successors: "self.successors[v].add(w)", after the recursive call
\* has returned or when v was a key already
RecordSuccessor ==
    /\ pc = "init"
    /\ stack # <<>>
    /\ Top.i <= Len(Preds(Top.w))
    /\ LET v == Preds(Top.w)[Top.i] IN
        /\ Top.st = "add" \/ ~NotVisited(successors, v)
        /\ successors' = AddSuccessor(successors, v, Top.w)
        /\ stack' = Append(Pop, Frame(Top.w, Top.i + 1, "test"))
    /\ UNCHANGED <<fields, self_results, ri, pc, order, live, returned>>

\* _fill_successors: the loop over the predecessors is over, the call returns
Return ==
    /\ pc = "init"
    /\ stack # <<>>
    /\ Top.st = "test"
    /\ Top.i > Len(Preds(Top.w))
    /\ stack' = Pop
    /\ UNCHANGED <<fields, successors, self_results, ri, pc, order, live,
                   returned>>

\* __init__: the loop over results is over, "self.results = results"
Finish ==
    /\ pc = "init"
    /\ stack = <<>>
    /\ ri > Len(results)
    /\ self_results' = results
    /\ pc' = "done"
    /\ UNCHANGED <<fields, successors, stack, ri, order, live, returned>>

----------------------------------------------------------------------------
(* DataFlowGraph.liveness *)

\* faulty variant: a policy that allows in-place execution everywhere
can_do_inplace_always(x) == TRUE

\* "can_do_inplace = lambda x: False"
can_do_inplace(x) == FALSE

\* faulty variant: persistent operations outside the graph are counted
PersistentBasesAllOps ==
    base_tensor_descriptions({x \in Ops : persistent[x]})

\* "base_tensor_descriptions((x for x in self.successors if x.persistent))"
PersistentBases ==
    base_tensor_descriptions({x \in DOMAIN successors : persistent[x]})

\* faulty variant: persistent bases are not re-added
RawStepNoPersistent(liv, persistentB, current, previous) ==
    LET use == base_tensor_descriptions(Range(args[current]))
        dfs == base_tensor_descriptions(defs[current])
    IN [liv EXCEPT ![previous] = use \cup (liv[current] \ dfs)]

\* faulty variant: the definitions are not subtracted
RawStepNoDefs(liv, persistentB, current, previous) ==
    LET use == base_tensor_descriptions(Range(args[current]))
    IN [liv EXCEPT ![previous] = use \cup liv[current] \cup persistentB]

\* "liveness[previous] = use | (liveness[current] - defs) | persistent"
RawStep(liv, persistentB, current, previous) ==
    LET use == base_tensor_descriptions(Range(args[current]))
        dfs == base_tensor_descriptions(defs[current])
    IN [liv EXCEPT ![previous] = use \cup (liv[current] \ dfs) \cup persistentB]

\* "for current, previous in reversed(list(zip(order[1:], order[:-1])))":
\* the pairs (ord[k+1], ord[k]) for k = Len(ord)-1 down to 1
RECURSIVE Update(_, _, _, _)
Update(liv, persistentB, ord, k) ==
    IF k = 0 THEN liv
    ELSE Update(RawStep(liv, persistentB, ord[k + 1], ord[k]),
                persistentB, ord, k - 1)

\* "if not can_do_inplace(op): liveness[op] |= base_tensor_descriptions(op.args)"
Adjust(liv, op) ==
    IF ~can_do_inplace(op)
    THEN liv[op] \cup base_tensor_descriptions(Range(args[op]))
    ELSE liv[op]

\* faulty variant: the first instruction gets no entry
LivenessOfTail(ord) ==
    IF Len(ord) = 0 THEN EmptyMap
    ELSE [op \in Range(Tail(ord)) |->
              PersistentBases \cup base_tensor_descriptions(Range(args[op]))]

\* the body of liveness() for the order ord
LivenessOf(ord) ==
    IF Len(ord) = 0 THEN EmptyMap
    ELSE
        LET init == [op \in Range(ord) |-> {}]
            persistentB == PersistentBases
            resultsB == base_tensor_descriptions(Range(self_results))
            seeded == [init EXCEPT ![ord[Len(ord)]] = resultsB \cup persistentB]
            raw == Update(seeded, persistentB, ord, Len(ord) - 1)
        IN [op \in DOMAIN raw |-> Adjust(raw, op)]

\* one call of liveness() on the constructed graph
Liveness ==
    /\ pc = "done"
    /\ \E ord \in TopSorts(successors) :
        /\ order' = ord
        /\ live' = LivenessOf(ord)
    /\ returned' = TRUE
    /\ UNCHANGED <<fields, successors, self_results, stack, ri, pc>>

----------------------------------------------------------------------------
(* Specifications *)

Start ==
    /\ successors = EmptyMap
    /\ self_results = <<>>
    /\ stack = <<>>
    /\ ri = 1
    /\ pc = "init"
    /\ order = <<>>
    /\ live = EmptyMap
    /\ returned = FALSE

\* any graph (cycles included) within the bounds, every operation a
\* non-persistent TensorOp that defines itself
Init ==
    /\ args \in [Ops -> SeqsUpTo(Ops, MaxArgs)]
    /\ EdgeCount(args) <= MaxEdges
    /\ other_deps \in [Ops -> SeqsUpTo(Ops, MaxDeps)]
    /\ EdgeCount(args) + EdgeCount(other_deps) <= MaxEdges
    /\ results \in {r \in SeqsUpTo(Ops, MaxResults) : IsInjective(r)}
    /\ defs = [o \in Ops |-> {o}]
    /\ persistent = [o \in Ops |-> FALSE]
    /\ base = [o \in Ops |-> ((o - 1) % NumBases) + 1]
    /\ Start

Max(S) == CHOOSE m \in S : \A x \in S : x <= m

\* acyclic graphs (every predecessor has a lower number, results in ascending
\* order) with every choice of the fields liveness() reads: TensorOp or not,
\* bases shared or not (bases are opaque, so they are numbered in order of
\* first use), persistent or not, defining its own storage or nothing
InitLive ==
    /\ args \in [Ops -> SeqsUpTo(Ops, MaxArgs)]
    /\ \A o \in Ops : \A v \in Range(args[o]) : v < o
    /\ EdgeCount(args) <= MaxLiveEdges
    /\ other_deps \in [Ops -> SeqsUpTo(Ops, MaxDeps)]
    /\ \A o \in Ops : \A v \in Range(other_deps[o]) : v < o
    /\ EdgeCount(args) + EdgeCount(other_deps) <= MaxLiveEdges
    /\ results \in {r \in SeqsUpTo(Ops, MaxResults) :
                       \A a, b \in 1..Len(r) : a < b => r[a] < r[b]}
    /\ base \in [Ops -> 0..NumBases]
    /\ \A o \in Ops : base[o] <= 1 + Max({0} \cup {base[x] : x \in 1..(o - 1)})
    /\ persistent \in {[o \in Ops |-> o \in S] :
                          S \in {T \in SUBSET Ops : Cardinality(T) <= MaxPersistent}}
    /\ defs \in {[o \in Ops |-> IF o \in S THEN {o} ELSE {}] : S \in SUBSET Ops}
    /\ Start

Next ==
    \/ CallResult
    \/ Recurse
    \/ RecordSuccessor
    \/ Return
    \/ Finish
    \/ Liveness

Spec == Init /\ [][Next]_vars

SpecLive == InitLive /\ [][Next]_vars

\* the interpreter runs the constructor to its end: every enabled step is
\* eventually taken
FairSpec == Init /\ [][Next]_vars /\ WF_vars(Next)

----------------------------------------------------------------------------
(* Properties of the constructed graph *)

Keys == DOMAIN successors

\* C1: after construction on an acyclic graph the keys of the successors
\* map are exactly the operations reachable from the results (results
\* included), and a key that nothing in the graph depends on maps to the
\* empty set.
ReachabilityCompleteness ==
    (pc = "done" /\ Acyclic) =>
        /\ Keys = Reachable(Range(results))
        /\ \A o \in Keys :
               (\A k \in Keys : o \notin PredSet(k)) => successors[o] = <<>>

ReachabilityWitness ==
    /\ pc = "done"
    /\ Acyclic
    /\ Ops \ Keys # {}
    /\ Keys \ Range(results) # {}
    /\ \E o \in Keys : Range(other_deps[o]) \ Range(args[o]) # {}
    /\ \E o \in Keys : successors[o] = <<>>

\* C2: after construction, for all keys u and v, v is a successor of u iff
\* u is among v's arguments or other dependencies, and no successor is
\* recorded twice.
EdgeCorrectness ==
    pc = "done" =>
        \A u \in Keys :
            /\ IsInjective(successors[u])
            /\ \A v \in Keys : v \in Range(successors[u]) <=> u \in PredSet(v)

\* v lists u in its arguments and in its other dependencies, and v is a
\* result that an earlier result has already registered
EdgeWitness ==
    /\ pc = "done"
    /\ Len(results) = 2
    /\ results[2] \in PredSet(results[1])
    /\ \E u \in Ops :
           /\ u \in Range(args[results[2]])
           /\ u \in Range(other_deps[results[2]])
           /\ results[2] \in Range(successors[u])

IsPrefix(s, t) == Len(s) <= Len(t) /\ SubSeq(t, 1, Len(s)) = s

OnStack(v) == \E k \in 1..Len(stack) : stack[k].w = v

\* the keys whose successor set this step extends
Extended ==
    {v \in DOMAIN successors' :
        successors'[v] # (IF v \in Keys THEN successors[v] ELSE <<>>)}

\* C10: on an acyclic graph, whenever a step records a successor of v, v and
\* everything reachable from v are keys already, no call for v is active
\* and all of v's own predecessors have had v recorded; a step adds at most
\* one key, with an empty set, never removes or resets a key, and extends a
\* successor set only at its end.
RegistrationBeforeEdges ==
    [][Acyclic =>
        /\ \A v \in Extended :
               /\ Reachable({v}) \subseteq Keys
               /\ ~OnStack(v)
               /\ \A u \in PredSet(v) : v \in Range(successors[u])
        /\ Keys \subseteq DOMAIN successors'
        /\ Cardinality(DOMAIN successors' \ Keys) <= 1
        /\ \A o \in DOMAIN successors' \ Keys : successors'[o] = <<>>
        /\ \A o \in Keys : IsPrefix(successors[o], successors'[o])
    ]_vars

\* a result that is a key already is entered again, its predecessor has
\* two successors recorded in order of discovery
RegistrationWitness ==
    /\ Acyclic
    /\ pc = "init"
    /\ ri = 3
    /\ stack # <<>>
    /\ stack[1].w \in PredSet(results[1])
    /\ \E v \in Keys : Len(successors[v]) = 2

\* C6 as claimed: when the graph reachable from the results has a cycle,
\* construction never completes.
CyclicNeverCompletes == HasCycle => pc # "done"

\* C6 as amended: construction completes on every finite graph, cyclic or
\* not.
ConstructionTerminates == <>(pc = "done")

CyclicWitness ==
    /\ HasCycle
    /\ pc = "done"
    /\ \E o \in Keys : o \in PredSet(o)
    /\ \E o \in Keys : o \notin PredSet(o) /\ o \in Reachable(PredSet(o))

----------------------------------------------------------------------------
(* Properties of the mapping liveness() returns *)

Use(x) == base_tensor_descriptions(Range(args[x]))

Defs(x) == base_tensor_descriptions(defs[x])

GraphPersistent == {base[x] : x \in {k \in Keys : persistent[k] /\ base[k] # 0}}

ResultBases == {base[x] : x \in {r \in Range(results) : base[r] # 0}}

\* C3: every instruction's live set contains the bases of its arguments.
LivenessSoundness ==
    returned => \A k \in 1..Len(order) : Use(order[k]) \subseteq live[order[k]]

\* an instruction with a tensor argument whose base nothing after it uses,
\* and which is neither a result base nor persistent
SoundnessWitness ==
    /\ returned
    /\ Len(order) = 3
    /\ Use(order[2]) # {}
    /\ Use(order[2]) \cap (Use(order[3]) \cup ResultBases \cup GraphPersistent) = {}

\* C4: the base of every persistent tensor operation of the graph is in
\* every instruction's live set.
PersistenceInvariant ==
    returned =>
        \A k \in 1..Len(order) : GraphPersistent \subseteq live[order[k]]

\* a persistent base that a later instruction defines and that is neither
\* used later nor a result base
PersistenceWitness ==
    /\ returned
    /\ Len(order) = 3
    /\ \E b \in GraphPersistent :
           /\ b \in Defs(order[2])
           /\ b \notin Use(order[2]) \cup Use(order[3]) \cup Use(order[1])
           /\ b \in live[order[1]]

\* C5: a base produced at position d and used by an argument at position
\* j > d is live at every position d..j.
LiveRangeGuarantee ==
    returned =>
        \A d, j \in 1..Len(order) : \A b \in Bases :
            (/\ d < j
             /\ base[order[d]] = b
             /\ b \in Use(order[j]))
            => \A k \in d..j : b \in live[order[k]]

\* C7 as claimed, for the chain A -> C with result set {C} and a persistent
\* P outside the graph
Chain(A, C, P) ==
    /\ results = <<C>>
    /\ args[C] = <<A>> /\ other_deps[C] = <<>>
    /\ args[A] = <<>> /\ other_deps[A] = <<>>
    /\ base[A] # 0 /\ base[C] # 0 /\ base[P] # 0
    /\ base[A] # base[C] /\ base[A] # base[P] /\ base[C] # base[P]
    /\ persistent[P]

ResultDomain ==
    /\ returned =>
          /\ DOMAIN live = Range(order)
          /\ Cardinality(DOMAIN live) = Len(order)
          /\ DOMAIN live = Keys
    /\ (pc = "done" /\ results = <<>>) =>
          /\ successors = EmptyMap
          /\ ENABLED Liveness
          /\ returned => order = <<>> /\ live = EmptyMap
    /\ returned =>
          \A op \in Ops :
              (/\ results = <<op>>
               /\ args[op] = <<>> /\ other_deps[op] = <<>>
               /\ base[op] # 0 /\ ~persistent[op])
              => order = <<op>> /\ live = (op :> {base[op]})

DomainWitness ==
    /\ returned
    /\ Len(order) = 3
    /\ DOMAIN live = Ops

\* C9: the returned mapping satisfies the backward recurrence: the last
\* instruction's set is R \cup P \cup use(last), and for consecutive
\* instructions L[prev] = use(cur) \cup (L[cur] - defs(cur)) \cup P \cup
\* use(prev); when cur has no arguments and no definitions,
\* L[prev] = L[cur] \cup use(prev).
BackwardRecurrence ==
    (returned /\ Len(order) >= 1) =>
        LET n == Len(order) IN
        /\ live[order[n]] = ResultBases \cup GraphPersistent \cup Use(order[n])
        /\ \A k \in 1..(n - 1) :
               LET prev == order[k]
                   cur == order[k + 1]
               IN /\ live[prev] = Use(cur) \cup (live[cur] \ Defs(cur))
                                    \cup GraphPersistent \cup Use(prev)
                  /\ (args[cur] = <<>> /\ defs[cur] = {}) =>
                         live[prev] = live[cur] \cup Use(prev)

\* an instruction that defines a base which is live after it and which it
\* does not use, and a later one with neither arguments nor definitions
RecurrenceWitness ==
    /\ returned
    /\ Len(order) = 3
    /\ (Defs(order[2]) \cap live[order[2]]) \ Use(order[2]) # {}
    /\ live[order[1]] # live[order[2]]
    /\ args[order[3]] = <<>> /\ defs[order[3]] = {}

====
